---------------------------- MODULE Spec2Model ----------------------------
(***************************************************************************)
(* Model of src/main.py: the GeoJSON streaming service.                    *)
(*                                                                         *)
(* State: the partition files on disk (read once by load_geojson_parts),   *)
(* the module-level dictionary geojson_parts, and the last request handled *)
(* with its response.  The two request handlers are coroutines without an  *)
(* await point, so each runs to completion on the event loop: one action   *)
(* per handler call.  Startup loading finishes before any request is       *)
(* served.                                                                 *)
(*                                                                         *)
(* Library behaviour the source relies on and does not fix:                *)
(*  - shapely box(minx, miny, maxx, maxy) builds the ring                  *)
(*    (maxx,miny) (maxx,maxy) (minx,maxy) (minx,miny) from its arguments   *)
(*    as given, without ordering them;                                     *)
(*  - pandas.concat of GeoDataFrames whose geometry columns carry          *)
(*    different reference systems either raises ValueError (geopandas      *)
(*    builds that validate a common CRS on concatenation) or keeps the     *)
(*    first frame's CRS (builds that do not).  The repository pins no      *)
(*    version, so the build's behaviour is a choice made once, at Init.    *)
(***************************************************************************)
EXTENDS Integers, Sequences, FiniteSets, TLC

VARIABLES
    files,              \* what gpd.read_file finds for each part index
    concat_checks_crs,  \* does this build's pd.concat validate a common CRS
    geojson_parts,      \* the module-level dict: index -> GeoDataFrame / None
    load_i,             \* loop variable of load_geojson_parts
    request,            \* the request received last
    response,           \* its response, NoResponse while it is being handled
    served,             \* number of requests handled so far
    dec_list,           \* decimation step in isolation: the filtered list,
    dec_zoom,           \*   the zoom level,
    dec_out,            \*   the sampled list,
    dec_done            \*   and whether the step has run

vars == <<files, concat_checks_crs, geojson_parts, load_i, request, response,
          served, dec_list, dec_zoom, dec_out, dec_done>>

---------------------------------------------------------------------------
(* Program constants and model bounds *)

NUM_PARTS == 3

\* longest partition file of the small store family
MaxFeatures == 1
\* requests handled in one run
MaxCalls == 2
\* longest list given to the decimation step in isolation
MaxLen == 1100
\* feature count of the shorter partition of the large store family
BigLen == 150

SampleTargetLow == 100
SampleTargetMid == 500
ZoomLow == 10
ZoomMid == 13

CRSs == {"EPSG:4326", "EPSG:3857"}
\* feature locations <<longitude, latitude>>
Points == {<<0, 15>>, <<0, 25>>}
Lats == {10, 20, 30}
\* <<west, east>>: around the features, and two pairs (one off to the east,
\* one with west and east exchanged) used with the tallest box only
LonPair == <<-10, 10>>
OtherLonPairs == {<<20, 30>>, <<10, -10>>}
Zooms == {9, 12, 13}
\* zoom levels given to the decimation step in isolation
DecZooms == {0, 9, 10, 12, 13, 18}

\* every non-degenerate box over Lats, inverted ones (north < south) included
BBoxes ==
    {[north |-> t[1], south |-> t[2], east |-> LonPair[2], west |-> LonPair[1]] :
        t \in {u \in Lats \X Lats : u[1] # u[2]}}
    \cup {[north |-> 30, south |-> 10, east |-> lp[2], west |-> lp[1]] :
            lp \in OtherLonPairs}

Indices == 1..NUM_PARTS

---------------------------------------------------------------------------
(* Values *)

None == [kind |-> "None"]

Max(a, b) == IF a >= b THEN a ELSE b

\* a GeoDataFrame: a reference system and the rows in storage order
GeoDataFrame(crs, rows) == [kind |-> "gdf", crs |-> crs, rows |-> rows]

Row(i, j, pt) == [src |-> <<i, j>>, x |-> pt[1], y |-> pt[2]]

len(gdf) == Len(gdf.rows)
empty(gdf) == len(gdf) = 0

\* the frames a readable small file of part i can hold
SmallFrames(i) ==
    {GeoDataFrame(c, [j \in 1..n |-> Row(i, j, f[j])]) :
        <<c, n, f>> \in {t \in CRSs \X (0..MaxFeatures) \X UNION {[1..m -> Points] : m \in 0..MaxFeatures} :
                          DOMAIN t[3] = 1..t[2]}}

Unreadable == {[kind |-> "missing"], [kind |-> "malformed"]}

\* large files: one reference system, rows alternating between the two points
BigFrame(i, n) ==
    GeoDataFrame("EPSG:4326",
        [j \in 1..n |-> Row(i, j, IF j % 2 = 1 THEN <<0, 15>> ELSE <<0, 25>>)])
BigLens == {0, BigLen, 2 * BigLen + 50}
BigFrames(i) == {BigFrame(i, n) : n \in BigLens}

---------------------------------------------------------------------------
(* load_geojson_parts: one loop iteration per step *)

read_file(i) == files[i]

\* faulty variant: no try/except around the read, so the first unreadable
\* file ends the loop and the remaining indices get no entry
load_geojson_parts_abort ==
    /\ load_i <= NUM_PARTS
    /\ \/ /\ read_file(load_i).kind = "gdf"
          /\ geojson_parts' = (load_i :> read_file(load_i)) @@ geojson_parts
          /\ load_i' = load_i + 1
       \/ /\ read_file(load_i).kind # "gdf"
          /\ geojson_parts' = geojson_parts
          /\ load_i' = NUM_PARTS + 1
    /\ UNCHANGED <<files, concat_checks_crs, request, response, served,
                   dec_list, dec_zoom, dec_out, dec_done>>

load_geojson_parts ==
    /\ load_i <= NUM_PARTS
    /\ \/ /\ read_file(load_i).kind = "gdf"
          /\ geojson_parts' = (load_i :> read_file(load_i)) @@ geojson_parts
       \/ /\ read_file(load_i).kind # "gdf"
          /\ geojson_parts' = (load_i :> None) @@ geojson_parts
    /\ load_i' = load_i + 1
    /\ UNCHANGED <<files, concat_checks_crs, request, response, served,
                   dec_list, dec_zoom, dec_out, dec_done>>

startup_done == load_i > NUM_PARTS

---------------------------------------------------------------------------
(* Requests: the server accepts requests once startup has completed, and   *)
(* the event loop runs one handler at a time                               *)

NoRequest == [op |-> "none"]
NoResponse == [kind |-> "none"]

Requests ==
    {[op |-> "geojson", bbox |-> b, zoom |-> z] : <<b, z>> \in BBoxes \X Zooms}
        \cup {[op |-> "info"]}

pending == request # NoRequest /\ response = NoResponse

receive(req) ==
    /\ startup_done
    /\ ~pending
    /\ served < MaxCalls
    /\ request' = req
    /\ response' = NoResponse
    /\ UNCHANGED <<files, concat_checks_crs, geojson_parts, load_i, served,
                   dec_list, dec_zoom, dec_out, dec_done>>

---------------------------------------------------------------------------
(* get_geojson_by_bounds *)

\* shapely box(minx, miny, maxx, maxy): the ring built from the arguments as
\* given; nothing orders minx/maxx or miny/maxy
box(minx, miny, maxx, maxy) ==
    <<<<maxx, miny>>, <<maxx, maxy>>, <<minx, maxy>>, <<minx, miny>>>>

\* a point geometry intersects the rectangle spanned by the ring iff it lies
\* between its extreme corners, borders included
intersects(row, poly) ==
    /\ \E k \in 1..4 : poly[k][1] <= row.x
    /\ \E k \in 1..4 : row.x <= poly[k][1]
    /\ \E k \in 1..4 : poly[k][2] <= row.y
    /\ \E k \in 1..4 : row.y <= poly[k][2]

\* gdf[gdf.geometry.intersects(bbox)]: boolean-mask selection, order kept
mask_select(gdf, poly) ==
    GeoDataFrame(gdf.crs, SelectSeq(gdf.rows, LAMBDA r : intersects(r, poly)))

\* faulty variant: rows.iloc[1::k], the stride starting at the second row
iloc_step_from_one(rows, k) ==
    [p \in 1..((Len(rows) - 1 + k - 1) \div k) |-> rows[(p - 1) * k + 2]]

\* rows.iloc[::k]: positions 0, k, 2k, ... (0-based) of rows
iloc_step(rows, k) ==
    [p \in 1..((Len(rows) + k - 1) \div k) |-> rows[(p - 1) * k + 1]]

\* faulty variant: the low-zoom branch divides by the mid-zoom target
sample_mid_target(rows, zoom) ==
    IF zoom < ZoomMid
    THEN iloc_step(rows, Max(1, Len(rows) \div SampleTargetMid))
    ELSE rows

\* the zoom-based sampling of one filtered list
sample(rows, zoom) ==
    IF zoom < ZoomLow
    THEN iloc_step(rows, Max(1, Len(rows) \div SampleTargetLow))
    ELSE IF zoom < ZoomMid
         THEN iloc_step(rows, Max(1, Len(rows) \div SampleTargetMid))
         ELSE rows

get(parts, i) == IF i \in DOMAIN parts THEN parts[i] ELSE None

\* faulty variant: the loop over range(1, NUM_PARTS), which leaves out the
\* last part
RECURSIVE filter_loop_short(_, _, _, _, _)
filter_loop_short(parts, poly, zoom, i, filtered_parts) ==
    IF i >= NUM_PARTS
    THEN filtered_parts
    ELSE LET gdf == get(parts, i)
         IN  IF gdf = None \/ empty(gdf)
             THEN filter_loop_short(parts, poly, zoom, i + 1, filtered_parts)
             ELSE LET filtered_gdf == mask_select(gdf, poly)
                  IN  filter_loop_short(parts, poly, zoom, i + 1,
                          Append(filtered_parts,
                                 GeoDataFrame(filtered_gdf.crs,
                                              sample(filtered_gdf.rows, zoom))))

\* the for loop over range(1, NUM_PARTS + 1), from index i with the list
\* filtered_parts collected so far
RECURSIVE filter_loop(_, _, _, _, _)
filter_loop(parts, poly, zoom, i, filtered_parts) ==
    IF i > NUM_PARTS
    THEN filtered_parts
    ELSE LET gdf == get(parts, i)
         IN  IF gdf = None \/ empty(gdf)
             THEN filter_loop(parts, poly, zoom, i + 1, filtered_parts)
             ELSE LET filtered_gdf == mask_select(gdf, poly)
                  IN  filter_loop(parts, poly, zoom, i + 1,
                          Append(filtered_parts,
                                 GeoDataFrame(filtered_gdf.crs,
                                              sample(filtered_gdf.rows, zoom))))

RECURSIVE concat_rows(_)
concat_rows(frames) ==
    IF frames = <<>> THEN <<>> ELSE Head(frames).rows \o concat_rows(Tail(frames))

ValueError == [kind |-> "ValueError"]

\* gpd.GeoDataFrame(pd.concat(frames, ignore_index=True), crs=frames[0].crs)
\* for a non-empty list of frames
concat(frames, checks_crs) ==
    IF checks_crs /\ \E a, b \in 1..Len(frames) : frames[a].crs # frames[b].crs
    THEN ValueError
    ELSE GeoDataFrame(frames[1].crs, concat_rows(frames))

\* json.loads(gdf.to_json())["features"]: one feature per row, the id being
\* the row's position in the re-indexed frame
to_json_features(gdf) ==
    [p \in 1..len(gdf) |->
        [id |-> p - 1,
         properties |-> [src |-> gdf.rows[p].src],
         geometry |-> <<gdf.rows[p].x, gdf.rows[p].y>>]]

\* faulty variant: the sampling applied once, to the merged frame, instead of
\* to each part's filtered list
query_body_merged(parts, checks_crs, bbox, zoom) ==
    LET poly == box(bbox.west, bbox.south, bbox.east, bbox.north)
        filtered_parts == filter_loop(parts, poly, ZoomMid, 1, <<>>)
    IN  IF filtered_parts # <<>>
        THEN LET merged == concat(filtered_parts, checks_crs)
             IN  IF merged = ValueError
                 THEN [kind |-> "HTTPException", status_code |-> 500]
                 ELSE LET combined_gdf ==
                              GeoDataFrame(merged.crs, sample(merged.rows, zoom))
                      IN  [kind |-> "FeatureCollection",
                           features |-> to_json_features(combined_gdf),
                           count |-> len(combined_gdf),
                           bounds |-> bbox]
        ELSE [kind |-> "FeatureCollection",
              features |-> <<>>,
              count |-> 0,
              bounds |-> bbox]

\* the body of the handler's try block
query_body(parts, checks_crs, bbox, zoom) ==
    LET poly == box(bbox.west, bbox.south, bbox.east, bbox.north)
        filtered_parts == filter_loop(parts, poly, zoom, 1, <<>>)
    IN  IF filtered_parts # <<>>
        THEN LET combined_gdf == concat(filtered_parts, checks_crs)
             IN  IF combined_gdf = ValueError
                 THEN [kind |-> "HTTPException", status_code |-> 500]
                 ELSE [kind |-> "FeatureCollection",
                       features |-> to_json_features(combined_gdf),
                       count |-> len(combined_gdf),
                       bounds |-> bbox]
        ELSE [kind |-> "FeatureCollection",
              features |-> <<>>,
              count |-> 0,
              bounds |-> bbox]

\* faulty variant: the handler keeps each filtered frame in geojson_parts
get_geojson_by_bounds_caching ==
    /\ pending
    /\ request.op = "geojson"
    /\ response' = query_body(geojson_parts, concat_checks_crs,
                              request.bbox, request.zoom)
    /\ geojson_parts' =
          [i \in DOMAIN geojson_parts |->
              IF geojson_parts[i] = None
              THEN None
              ELSE mask_select(geojson_parts[i],
                               box(request.bbox.west, request.bbox.south,
                                   request.bbox.east, request.bbox.north))]
    /\ served' = served + 1
    /\ UNCHANGED <<files, concat_checks_crs, load_i, request,
                   dec_list, dec_zoom, dec_out, dec_done>>

get_geojson_by_bounds ==
    /\ pending
    /\ request.op = "geojson"
    /\ response' = query_body(geojson_parts, concat_checks_crs,
                              request.bbox, request.zoom)
    /\ served' = served + 1
    /\ UNCHANGED <<files, concat_checks_crs, geojson_parts, load_i, request,
                   dec_list, dec_zoom, dec_out, dec_done>>

---------------------------------------------------------------------------
(* get_info *)

\* faulty variant: [g for g in geojson_parts.values() if g is not None]
RECURSIVE values_loaded_any(_, _)
values_loaded_any(parts, i) ==
    IF i > NUM_PARTS
    THEN <<>>
    ELSE LET g == get(parts, i)
         IN  IF g # None
             THEN <<g>> \o values_loaded_any(parts, i + 1)
             ELSE values_loaded_any(parts, i + 1)

\* [g for g in geojson_parts.values() if g is not None and not g.empty],
\* in the dictionary's insertion order (ascending index)
RECURSIVE values_loaded(_, _)
values_loaded(parts, i) ==
    IF i > NUM_PARTS
    THEN <<>>
    ELSE LET g == get(parts, i)
         IN  IF g # None /\ ~empty(g)
             THEN <<g>> \o values_loaded(parts, i + 1)
             ELSE values_loaded(parts, i + 1)

\* combined.total_bounds: the extreme coordinates, NaN for a frame without rows
total_bounds(gdf) ==
    LET R == {gdf.rows[p] : p \in 1..len(gdf)}
    IN  IF R = {}
        THEN [west |-> "nan", south |-> "nan", east |-> "nan", north |-> "nan"]
        ELSE
        [west  |-> CHOOSE v \in {r.x : r \in R} : \A r \in R : v <= r.x,
         south |-> CHOOSE v \in {r.y : r \in R} : \A r \in R : v <= r.y,
         east  |-> CHOOSE v \in {r.x : r \in R} : \A r \in R : v >= r.x,
         north |-> CHOOSE v \in {r.y : r \in R} : \A r \in R : v >= r.y]

info_body(parts, checks_crs) ==
    LET gdfs == values_loaded(parts, 1)
    IN  IF gdfs = <<>>
        THEN [kind |-> "status", status |-> "No data loaded"]
        ELSE LET combined == concat(gdfs, checks_crs)
             IN  IF combined = ValueError
                 THEN [kind |-> "status", status |-> "Error retrieving info"]
                 ELSE [kind |-> "info",
                       total_features |-> len(combined),
                       bounds |-> total_bounds(combined),
                       columns |-> <<"src", "geometry">>]

get_info ==
    /\ pending
    /\ request.op = "info"
    /\ response' = info_body(geojson_parts, concat_checks_crs)
    /\ served' = served + 1
    /\ UNCHANGED <<files, concat_checks_crs, geojson_parts, load_i, request,
                   dec_list, dec_zoom, dec_out, dec_done>>

---------------------------------------------------------------------------
(* The decimation step of the query loop on its own *)

decimate ==
    /\ ~dec_done
    /\ dec_out' = sample(dec_list, dec_zoom)
    /\ dec_done' = TRUE
    /\ UNCHANGED <<files, concat_checks_crs, geojson_parts, load_i, request,
                   response, served, dec_list, dec_zoom>>

---------------------------------------------------------------------------
(* Specifications *)

InitService ==
    /\ concat_checks_crs \in BOOLEAN
    /\ geojson_parts = <<>>
    /\ load_i = 1
    /\ request = NoRequest
    /\ response = NoResponse
    /\ served = 0

InitNoDecimation ==
    /\ dec_list = <<>>
    /\ dec_zoom = ZoomMid
    /\ dec_out = <<>>
    /\ dec_done = TRUE

\* the service over every small store
Init ==
    /\ files \in {f \in [Indices -> UNION {SmallFrames(i) : i \in Indices} \cup Unreadable] :
                    \A i \in Indices : f[i] \in SmallFrames(i) \cup Unreadable}
    /\ InitService
    /\ InitNoDecimation

Next ==
    \/ load_geojson_parts
    \/ \E req \in Requests : receive(req)
    \/ get_geojson_by_bounds
    \/ get_info

Spec == Init /\ [][Next]_vars

\* the service over stores of large single-reference-system partitions
InitBig ==
    /\ files \in {f \in [Indices -> UNION {BigFrames(i) : i \in Indices} \cup {[kind |-> "missing"]}] :
                    \A i \in Indices : f[i] \in BigFrames(i) \cup {[kind |-> "missing"]}}
    /\ InitService
    /\ InitNoDecimation

SpecBig == InitBig /\ [][Next]_vars

\* the decimation step over every list length up to MaxLen
InitDecimate ==
    /\ files = [i \in Indices |-> [kind |-> "missing"]]
    /\ concat_checks_crs = TRUE
    /\ geojson_parts = <<>>
    /\ load_i = 1
    /\ request = NoRequest
    /\ response = NoResponse
    /\ served = 0
    /\ dec_list \in {[j \in 1..n |-> 10 * j] : n \in 0..MaxLen}
    /\ dec_zoom \in DecZooms
    /\ dec_out = <<>>
    /\ dec_done = FALSE

NextDecimate == decimate

SpecDecimate == InitDecimate /\ [][NextDecimate]_vars

---------------------------------------------------------------------------
(* Properties.  They are stated over the files found at startup, the       *)
(* request and its response, not over the handlers' own intermediate       *)
(* values.                                                                 *)

Answered(op) == request.op = op /\ response # NoResponse

Readable(i) == files[i].kind = "gdf"
RowsOf(i) == IF Readable(i) THEN files[i].rows ELSE <<>>

\* src names a feature of a readable file: <<part index, storage position>>
IsSrc(src) == src[1] \in Indices /\ src[2] \in 1..Len(RowsOf(src[1]))

RECURSIVE RowsFrom(_)
RowsFrom(i) == IF i > NUM_PARTS THEN 0 ELSE Len(RowsOf(i)) + RowsFrom(i + 1)
\* the number of features in the readable files
TotalRows == RowsFrom(1)

SingleReferenceSystem ==
    \A i, j \in Indices : Readable(i) /\ Readable(j) => files[i].crs = files[j].crs

\* the dictionary a startup that records every failure as None ends with
StoreAfterStartup == [i \in Indices |-> IF Readable(i) THEN files[i] ELSE None]
\* the dictionary holding the readable parts and nothing else
ReadableOnly == [i \in {j \in Indices : Readable(j)} |-> files[i]]

\* the point lies in the rectangle whose opposite corners are (west, south)
\* and (east, north), whichever way round they are given
InSpan(row, bbox) ==
    /\ (bbox.west <= row.x /\ row.x <= bbox.east)
         \/ (bbox.east <= row.x /\ row.x <= bbox.west)
    /\ (bbox.south <= row.y /\ row.y <= bbox.north)
         \/ (bbox.north <= row.y /\ row.y <= bbox.south)

\* the point lies in the closed rectangle south..north by west..east
InRect(row, bbox) ==
    /\ bbox.west <= row.x /\ row.x <= bbox.east
    /\ bbox.south <= row.y /\ row.y <= bbox.north

Matches(i, bbox) ==
    \E p \in 1..Len(RowsOf(i)) : InSpan(RowsOf(i)[p], bbox)

CoversAll(bbox) ==
    \A i \in Indices : \A p \in 1..Len(RowsOf(i)) : InRect(RowsOf(i)[p], bbox)

LexLess(a, b) == a[1] < b[1] \/ (a[1] = b[1] /\ a[2] < b[2])

EmptyResult ==
    /\ response.kind = "FeatureCollection"
    /\ response.count = 0
    /\ response.features = <<>>

\* C1 (as claimed): whenever two partitions with different reference systems
\* both contribute features to a query, the query fails and returns no
\* features.
C1_MismatchFails ==
    (/\ Answered("geojson")
     /\ \E i, j \in Indices :
            /\ Matches(i, request.bbox) /\ Matches(j, request.bbox)
            /\ files[i].crs # files[j].crs)
    => response.kind = "HTTPException"

\* C2 (as claimed): a query with north < south succeeds with count 0 and no
\* features, whatever the store holds.  Stated for stores with one
\* reference system, where no other failure interferes.
C2_InvertedBoxMatchesNothing ==
    (/\ Answered("geojson")
     /\ SingleReferenceSystem
     /\ request.bbox.north < request.bbox.south)
    => EmptyResult

\* C8 (as claimed): a query whose box meets no feature of any loaded
\* partition succeeds with count 0 and no features, in every store state.
C8_DisjointBoxGivesEmptyResult ==
    (/\ Answered("geojson")
     /\ \A i \in Indices : ~Matches(i, request.bbox))
    => EmptyResult

\* C3: with one reference system, a box covering every loaded feature and
\* zoom >= 13, the query returns every loaded feature exactly once, by
\* ascending part index and storage position, and count is their number.
C3_FullExtentReturnsAll ==
    (/\ Answered("geojson")
     /\ SingleReferenceSystem
     /\ request.zoom >= 13
     /\ CoversAll(request.bbox))
    => /\ response.kind = "FeatureCollection"
       /\ response.count = TotalRows
       /\ Len(response.features) = TotalRows
       /\ \A p \in 1..Len(response.features) :
            LET src == response.features[p].properties.src
            IN  /\ IsSrc(src)
                /\ response.features[p].geometry
                     = <<RowsOf(src[1])[src[2]].x, RowsOf(src[1])[src[2]].y>>
                /\ p < Len(response.features)
                     => LexLess(src, response.features[p + 1].properties.src)

\* two non-empty partitions were returned whole
C3_Witness ==
    /\ Answered("geojson")
    /\ SingleReferenceSystem
    /\ request.zoom >= 13
    /\ CoversAll(request.bbox)
    /\ Cardinality({i \in Indices : RowsOf(i) # <<>>}) >= 2
    /\ response.kind = "FeatureCollection"
    /\ response.count = TotalRows
    /\ response.count > 2 * BigLen

\* C4: after startup there is an entry for every index, None exactly for the
\* files that could not be read and the file's frame otherwise; and every
\* query is answered as it would be by a store holding the readable
\* partitions only.
C4_FailedLoadsAreAbsent ==
    /\ startup_done =>
         /\ DOMAIN geojson_parts = Indices
         /\ \A i \in Indices :
              /\ geojson_parts[i] = None <=> ~Readable(i)
              /\ Readable(i) => geojson_parts[i] = files[i]
    /\ Answered("geojson") =>
         response = query_body(ReadableOnly, concat_checks_crs,
                               request.bbox, request.zoom)

\* part 2 failed to load, parts 1 and 3 loaded with features, and a query
\* over the tallest box returned exactly their features
C4_Witness ==
    /\ startup_done
    /\ ~Readable(2) /\ RowsOf(1) # <<>> /\ RowsOf(3) # <<>>
    /\ geojson_parts[2] = None
    /\ Answered("geojson")
    /\ request.bbox = [north |-> 30, south |-> 10, east |-> 10, west |-> -10]
    /\ request.zoom >= 13
    /\ response.kind = "FeatureCollection"
    /\ response.count = Len(RowsOf(1)) + Len(RowsOf(3))
    /\ \A p \in 1..response.count : response.features[p].properties.src[1] # 2

---------------------------------------------------------------------------
(* The decimation step *)

\* the stride the sampling policy prescribes for a list of n rows
StrideFor(n, zoom) ==
    IF zoom < 10 THEN Max(1, n \div 100)
    ELSE IF zoom < 13 THEN Max(1, n \div 500)
    ELSE 1

CeilDiv(n, k) == (n + k - 1) \div k

\* C5: the step returns exactly the rows at 0-based positions 0, k, 2k, ...
\* of its input, in order, with k = max(1, n div 100) below zoom 10,
\* k = max(1, n div 500) below zoom 13, and the input itself from zoom 13.
C5_StrideSample ==
    dec_done =>
        LET n == Len(dec_list)
            k == StrideFor(n, dec_zoom)
        IN  /\ Len(dec_out) = Cardinality({p \in 0..(n - 1) : p % k = 0})
            /\ \A p \in 0..(n - 1) :
                 p % k = 0 => dec_out[(p \div k) + 1] = dec_list[p + 1]
            /\ dec_zoom >= 13 => dec_out = dec_list

\* a list long enough for a stride of 2 in the middle bracket was thinned
C5_Witness ==
    /\ dec_done
    /\ dec_zoom >= 10 /\ dec_zoom < 13
    /\ Len(dec_list) = 1001
    /\ Len(dec_out) = 501
    /\ dec_out[2] = dec_list[3]

\* C6 (as claimed): the output is no longer than ceil(n / k), and never
\* longer than 101 rows below zoom 10 or 501 rows below zoom 13; from
\* zoom 13 it is as long as the input.
C6_AboutTargetLength ==
    dec_done =>
        LET n == Len(dec_list)
            k == StrideFor(n, dec_zoom)
        IN  /\ Len(dec_out) <= CeilDiv(n, k)
            /\ dec_zoom < 10 => Len(dec_out) <= 101
            /\ (dec_zoom >= 10 /\ dec_zoom < 13) => Len(dec_out) <= 501
            /\ dec_zoom >= 13 => Len(dec_out) = n

\* C6 (amended): the output is no longer than ceil(n / k), and never longer
\* than 199 rows below zoom 10 or 999 rows below zoom 13; from zoom 13 it
\* is as long as the input.
C6_LengthBound ==
    dec_done =>
        LET n == Len(dec_list)
            k == StrideFor(n, dec_zoom)
        IN  /\ Len(dec_out) <= CeilDiv(n, k)
            /\ dec_zoom < 10 => Len(dec_out) <= 199
            /\ (dec_zoom >= 10 /\ dec_zoom < 13) => Len(dec_out) <= 999
            /\ dec_zoom >= 13 => Len(dec_out) = n

\* the longest output below zoom 10: 199 rows in, 199 rows out
C6_Witness ==
    /\ dec_done
    /\ dec_zoom < 10
    /\ Len(dec_list) = 199
    /\ Len(dec_out) = 199

---------------------------------------------------------------------------
(* get_info *)

NoData == [kind |-> "status", status |-> "No data loaded"]

---------------------------------------------------------------------------
(* Composition of the query *)

\* what partition i contributes: its rows meeting the box, sampled by the
\* policy applied to that partition's own filtered list
Contribution(i, bbox, zoom) ==
    LET f == SelectSeq(RowsOf(i), LAMBDA r : InSpan(r, bbox))
        n == Len(f)
        k == StrideFor(n, zoom)
    IN  [p \in 1..CeilDiv(n, k) |-> f[(p - 1) * k + 1]]

RECURSIVE ContributionsFrom(_, _, _)
ContributionsFrom(i, bbox, zoom) ==
    IF i > NUM_PARTS
    THEN <<>>
    ELSE Contribution(i, bbox, zoom) \o ContributionsFrom(i + 1, bbox, zoom)

---------------------------------------------------------------------------
(* Handlers only read the store *)

AloneResponse(req) ==
    IF req.op = "geojson"
    THEN query_body(StoreAfterStartup, concat_checks_crs, req.bbox, req.zoom)
    ELSE info_body(StoreAfterStartup, concat_checks_crs)

\* C10: once startup has finished no step changes geojson_parts, and every
\* response is the one the request gets when it is the only request ever
\* made against the store startup left.
C10_ReadOnlyHandlers ==
    [][startup_done =>
         /\ geojson_parts' = geojson_parts
         /\ (response' # NoResponse /\ response = NoResponse)
              => response' = AloneResponse(request)]_vars

\* two requests were answered, the second a summary over loaded features,
\* and the store is as startup left it
C10_Witness ==
    /\ served >= 2
    /\ Answered("info")
    /\ response.kind = "info"
    /\ \E i \in Indices : RowsOf(i) # <<>>
    /\ geojson_parts = StoreAfterStartup

=============================================================================
